---- MODULE Spec2Model ----
(***************************************************************************)
(* Memory compression, context assembly, token counting and the           *)
(* connection life cycle of pg-agent-memory.                               *)
(*                                                                         *)
(*   CompressionService (src/unnamed/part_011, lines 1-310)                *)
(*   AgentMemory        (src/src/memory/AgentMemory.ts)                    *)
(*   UniversalTokenizer (src/src/tokenization/UniversalTokenizer.ts)       *)
(*                                                                         *)
(* Numbers the code keeps as floats are scaled to integers: importance     *)
(* and the importance thresholds are in tenths (0.3 is 3), the provider    *)
(* multipliers and the token buffer in hundredths.  Timestamps are         *)
(* whole days.  A memory's content is represented by its length in         *)
(* characters (len) and by the number of tokens the tiktoken encoder       *)
(* gives it (tok), which is an input: the encoder is a library.            *)
(***************************************************************************)
EXTENDS Integers, Sequences, FiniteSets, TLC

VARIABLES
    \* CompressionService.analyzeCompressionCandidates, as a function
    memories,       \* the Message[] passed in, in the caller's order
    config,         \* the CompressionConfig of the service
    analysis,       \* what the call returned, NoValue before it
    summaryOutcome, \* what CompressionService.compressMemories returned or threw
    \* AgentMemory.getRelevantContext / getRelevantContextWithCompression
    rows,           \* rows of <prefix>_memories, ranked by distance
    summaryRows,    \* rows of <prefix>_memory_summaries, ranked by distance
    maxTokens,      \* the maxTokens argument
    context,        \* the Context returned, NoValue before the call
    \* AgentMemory.compressMemories, as a process per invocation
    dbMemories,     \* the rows of <prefix>_memories
    dbSummaries,    \* the rows of <prefix>_memory_summaries
    pc,             \* where each invocation stands
    local,          \* the locals of each invocation
    result,         \* the CompressionResult each invocation resolved with
    deleted,        \* per invocation, the ids of the DELETEs it has executed
    thrown,         \* per invocation, whether an exception reached its catch
    \* UniversalTokenizer
    providers,      \* the registered provider configs, in registration order
    defaultStrategy,\* the strategy given to the constructor
    cache,          \* the token cache, in insertion order
    clock,          \* Date.now()
    tokenResult,    \* the last call of the tokenizer and what it resolved with
    stored,         \* history: the keys cached since the last clearCache, and when
    \* AgentMemory and EmbeddingService
    agent,          \* isConnected, where initialize() and disconnect() stand,
                    \* and the last data operation called
    embedding,      \* the EmbeddingService singleton and its initialize() calls
    soc             \* the summarizeOldConversations call in flight, and the
                    \* number of remember() calls made beside it

vars == << memories, config, analysis, summaryOutcome, rows, summaryRows, maxTokens, context,
           dbMemories, dbSummaries, pc, local, result, deleted, thrown,
           providers, defaultStrategy, cache, clock, tokenResult, stored,
           agent, embedding, soc >>

analyzerVars == << memories, config, analysis, summaryOutcome >>
contextVars == << rows, summaryRows, maxTokens, context >>
compressVars == << dbMemories, dbSummaries, pc, local, result, deleted, thrown >>
tokenizerVars == << providers, defaultStrategy, cache, clock, tokenResult, stored >>
serviceVars == << agent, embedding, soc >>

NoValue == [none |-> TRUE]

----------------------------------------------------------------------------
(* Bounds of the model and the value sets inputs are drawn from.           *)

MaxMem == 3             \* longest Message[] handed to the analyzer
MaxRows == 3            \* most memory rows a ranked query returns
MaxSummaryRows == 2     \* most summary rows a ranked query returns
MaxDbMemories == 5      \* most memories the table starts with

Days == {1, 2}                      \* the timestamps of memories, in days
\* new Date() at the time of a call: the day after the latest memory
Now == 1 + (CHOOSE d \in Days : \A e \in Days : e <= d)
ImportanceValues == {2, 5}                    \* 0.2 and 0.5
TokValues == {1, 3}                           \* tiktoken counts of a content
Conversations == {"c1", "c2"}
Strategies == {"time_based", "importance_based", "token_based", "hybrid"}

Min(a, b) == IF a <= b THEN a ELSE b
Max(a, b) == IF a >= b THEN a ELSE b

\* Math.ceil(n / d) for n >= 0, d > 0
CeilDiv(n, d) == (n + d - 1) \div d

RECURSIVE SumSeq(_)
SumSeq(s) == IF s = << >> THEN 0 ELSE Head(s) + SumSeq(Tail(s))

Range(s) == { s[i] : i \in 1..Len(s) }

\* Array.prototype.slice(start, end): negative arguments count from the end,
\* and -0 is 0.
Slice(s, start, end) ==
    LET len == Len(s)
        from == IF start < 0 THEN Max(len + start, 0) ELSE Min(start, len)
        to == IF end < 0 THEN Max(len + end, 0) ELSE Min(end, len)
    IN  SubSeq(s, from + 1, to)

\* Array.prototype.slice(start)
SliceFrom(s, start) == Slice(s, start, Len(s))

----------------------------------------------------------------------------
(* CompressionService                                                      *)

\* CompressionConfigSchema defaults, scaled as said above.
DefaultCompressionRatio == 3
DefaultImportanceThreshold == 3

\* The sort left out: the array in the caller's order.
SortByTimestampOmitted(s) == s

\* [...memories].sort((a, b) => a.timestamp - b.timestamp): ascending by
\* timestamp, stable (memories with equal timestamps keep their order).
RECURSIVE SortByTimestamp(_)
SortByTimestamp(s) ==
    IF s = << >> THEN << >>
    ELSE LET front == SortByTimestamp(SubSeq(s, 1, Len(s) - 1))
             m == s[Len(s)]
             n == Cardinality({ i \in 1..Len(front) :
                                  front[i].timestamp <= m.timestamp })
         IN  SubSeq(front, 1, n) \o << m >> \o SubSeq(front, n + 1, Len(front))

\* CompressionService.countTokens: the tiktoken count of the content.
CountTokensTiktoken(m) == m.tok

\* calculateTotalTokens
CalculateTotalTokens(ms) ==
    SumSeq([i \in 1..Len(ms) |-> CountTokensTiktoken(ms[i])])

\* filterByTime: cutoffDate = now - timeThresholdDays
FilterByTime(ms, cfg) ==
    LET cutoffDate == Now - cfg.timeThresholdDays
        old(m) == m.timestamp < cutoffDate
    IN  SelectSeq(ms, old)

\* filterByImportance
FilterByImportance(ms, cfg) ==
    LET low(m) == m.importance < cfg.importanceThreshold
    IN  SelectSeq(ms, low)

\* The loop of filterByTokens over sortedByAge from position i on, with
\* currentTokens accumulated so far; returns the candidates pushed.
RECURSIVE TokenLoop(_, _, _, _)
TokenLoop(sorted, i, currentTokens, cfg) ==
    IF i > Len(sorted) THEN << >>
    ELSE LET tokens == CountTokensTiktoken(sorted[i])
         IN  IF currentTokens + tokens > cfg.maxTokensBeforeCompression
             THEN << sorted[i] >> \o TokenLoop(sorted, i + 1, currentTokens, cfg)
             ELSE TokenLoop(sorted, i + 1, currentTokens + tokens, cfg)

FilterByTokens(ms, cfg) == TokenLoop(SortByTimestamp(ms), 1, 0, cfg)

\* filterHybrid: the ids of the three filters' results, then the memories
\* whose id is among them.  A message without id has id undefined (0 here).
FilterHybrid(ms, cfg) ==
    LET timeEligible == FilterByTime(ms, cfg)
        importanceEligible == FilterByImportance(ms, cfg)
        tokenEligible == FilterByTokens(ms, cfg)
        eligibleIds == { m.id : m \in Range(timeEligible)
                                      \cup Range(importanceEligible)
                                      \cup Range(tokenEligible) }
        has(m) == m.id \in eligibleIds
    IN  SelectSeq(ms, has)

\* filterCompressionCandidates
FilterCompressionCandidates(ms, cfg) ==
    CASE cfg.strategy = "time_based" -> FilterByTime(ms, cfg)
      [] cfg.strategy = "importance_based" -> FilterByImportance(ms, cfg)
      [] cfg.strategy = "token_based" -> FilterByTokens(ms, cfg)
      [] OTHER -> FilterHybrid(ms, cfg)

\* analyzeCompressionCandidates
AnalyzeCompressionCandidates(ms, cfg) ==
    LET sortedMemories == SortByTimestamp(ms)
        preserveCount == Min(cfg.preserveRecentCount, Len(sortedMemories))
        preserved == SliceFrom(sortedMemories, -preserveCount)
        candidates == Slice(sortedMemories, 0, -preserveCount)
        eligible == FilterCompressionCandidates(candidates, cfg)
        eligibleTokens == CalculateTotalTokens(eligible)
    IN  [ eligible |-> eligible,
          preserved |-> preserved,
          candidates |-> candidates,    \* the local, kept for the properties
          tokenAnalysis |->
              [ total |-> CalculateTotalTokens(ms),
                eligible |-> eligibleTokens,
                preserved |-> CalculateTotalTokens(preserved),
                projectedSavings |->
                    (eligibleTokens * (10 - cfg.compressionRatio)) \div 10 ] ]

----------------------------------------------------------------------------
(* CompressionService.compressMemories: the summary of a memory set        *)

\* groupByConversation, and the grouping loop of AgentMemory.compressMemories:
\* a Map from conversation to its memories, in the order the conversations
\* first appear.
RECURSIVE GroupByConversation(_)
GroupByConversation(ms) ==
    IF ms = << >> THEN << >>
    ELSE LET conv == ms[1].conversation
             same(m) == m.conversation = conv
             other(m) == m.conversation # conv
         IN  << [ conversationId |-> conv, memories |-> SelectSeq(ms, same) ] >>
             \o GroupByConversation(SelectSeq(ms, other))

\* .sort((a, b) => b.importance - a.importance): descending, stable
RECURSIVE SortByImportanceDesc(_)
SortByImportanceDesc(s) ==
    IF s = << >> THEN << >>
    ELSE LET front == SortByImportanceDesc(SubSeq(s, 1, Len(s) - 1))
             m == s[Len(s)]
             n == Cardinality({ i \in 1..Len(front) :
                                  front[i].importance >= m.importance })
         IN  SubSeq(front, 1, n) \o << m >> \o SubSeq(front, n + 1, Len(front))

\* The importance floor of generateExtractiveSummary, 0.3, and the share of
\* a conversation it keeps, 0.3, both in tenths; and the least it keeps.
SummaryImportanceFloor == 3
SummaryKeepShare == 3
SummaryKeepMin == 3

\* The memories of one conversation generateExtractiveSummary renders.
ImportantOf(msgs) ==
    LET floor(m) == m.importance >= SummaryImportanceFloor
    IN  Slice(SortByImportanceDesc(SelectSeq(msgs, floor)), 0,
              Max(SummaryKeepMin, CeilDiv(Len(msgs) * SummaryKeepShare, 10)))

\* Tokens the encoder gives the fixed pieces of the summary text: the
\* "[conversation] " tag, a "role: " prefix, the " | " between memories and
\* the blank line between conversations.
TagTokens == 3
RoleTokens == 2
BarTokens == 1
BlankLineTokens == 1

\* countTokens(generateExtractiveSummary(memories)): the text is, per
\* conversation with a memory kept, "[conv] role: content | role: content",
\* the conversations joined by a blank line.
SummaryTokenCount(ms) ==
    LET groups == GroupByConversation(ms)
        kept == SelectSeq([ g \in 1..Len(groups) |-> ImportantOf(groups[g].memories) ],
                          LAMBDA imp : Len(imp) > 0)
        part(imp) == TagTokens + SumSeq([ i \in 1..Len(imp) |-> RoleTokens + imp[i].tok ])
                     + BarTokens * (Len(imp) - 1)
    IN  IF kept = << >> THEN 0
        ELSE SumSeq([ g \in 1..Len(kept) |-> part(kept[g]) ])
             + BlankLineTokens * (Len(kept) - 1)

\* compressMemories(memories, agentId, conversationId) for a non-empty set;
\* sumId stands for `sum_${ulid()}`.
CompressMemories(ms, conversationId, sumId) ==
    LET sortedMemories == SortByTimestamp(ms)
        originalTokenCount == CalculateTotalTokens(sortedMemories)
        tokenCount == SummaryTokenCount(sortedMemories)
    IN  [ id |-> sumId,
          conversationId |-> conversationId,
          timeWindow |-> [ start |-> sortedMemories[1].timestamp,
                           end |-> sortedMemories[Len(sortedMemories)].timestamp ],
          originalMemoryIds |-> [ i \in 1..Len(sortedMemories) |-> sortedMemories[i].id ],
          compressionRatio |-> [ num |-> tokenCount, den |-> originalTokenCount ],
          tokenCount |-> tokenCount,
          originalTokenCount |-> originalTokenCount ]

\* compressMemories returning a summary for the empty set as well.
CompressMemoriesUnguarded(ms, conversationId, sumId) ==
    IF Len(ms) = 0
    THEN [ error |-> "none",
           summary |-> [ id |-> sumId, conversationId |-> conversationId,
                         timeWindow |-> [ start |-> 0, end |-> 0 ],
                         originalMemoryIds |-> << >>,
                         compressionRatio |-> [ num |-> 0, den |-> 0 ],
                         tokenCount |-> 0, originalTokenCount |-> 0 ] ]
    ELSE [ error |-> "none", summary |-> CompressMemories(ms, conversationId, sumId) ]

\* CompressionService.compressMemories as its caller sees it: the empty set
\* throws CompressionError before anything is built, any other set returns
\* its summary.
CompressionServiceCompressMemories(ms, conversationId, sumId) ==
    IF Len(ms) = 0
    THEN [ error |-> "CompressionError", summary |-> NoValue ]
    ELSE [ error |-> "none", summary |-> CompressMemories(ms, conversationId, sumId) ]

----------------------------------------------------------------------------
(* The service as functions: the inputs are drawn in Init, and one of its  *)
(* two methods is called.                                                  *)

MemoryAttrs == [ timestamp : Days, importance : ImportanceValues, tok : TokValues ]

\* Messages as a caller builds them: all with an id of their own, or all
\* without (MessageSchema: id optional).
MakeMemories(n, f, withIds) ==
    [ i \in 1..n |->
        [ k |-> i,
          id |-> IF withIds THEN i ELSE 0,
          conversation |-> "c1",
          timestamp |-> f[i].timestamp,
          importance |-> f[i].importance,
          tok |-> f[i].tok ] ]

AnalyzerConfigs ==
    [ strategy : Strategies,
      maxTokensBeforeCompression : {2},
      compressionRatio : {DefaultCompressionRatio},
      timeThresholdDays : {1},
      importanceThreshold : {DefaultImportanceThreshold},
      preserveRecentCount : 0..(MaxMem + 1) ]

IdleContext ==
    /\ rows = << >> /\ summaryRows = << >> /\ maxTokens = 0 /\ context = NoValue

IdleCompress ==
    /\ dbMemories = {} /\ dbSummaries = {}
    /\ pc = << >> /\ local = << >> /\ result = << >> /\ deleted = << >>
    /\ thrown = << >>

IdleServices ==
    /\ agent = NoValue /\ embedding = NoValue /\ soc = NoValue

IdleTokenizer ==
    /\ providers = << >> /\ defaultStrategy = "hybrid" /\ cache = << >>
    /\ clock = 0 /\ tokenResult = NoValue /\ stored = {}

IdleAnalyzer ==
    /\ memories = << >> /\ config = NoValue /\ analysis = NoValue
    /\ summaryOutcome = NoValue

InitAnalyze ==
    /\ \E n \in 0..MaxMem, withIds \in BOOLEAN :
         \E f \in [1..n -> MemoryAttrs] :
            memories = MakeMemories(n, f, withIds)
    /\ config \in AnalyzerConfigs
    /\ analysis = NoValue
    /\ summaryOutcome = NoValue
    /\ IdleContext
    /\ IdleCompress
    /\ IdleServices
    /\ IdleTokenizer

Analyze ==
    /\ analysis = NoValue /\ summaryOutcome = NoValue
    /\ analysis' = AnalyzeCompressionCandidates(memories, config)
    /\ UNCHANGED << memories, config, summaryOutcome, contextVars, compressVars,
                    tokenizerVars, serviceVars >>

\* compressionService.compressMemories(memories, agentId, 'c1') is called on
\* the service.
Compress ==
    /\ analysis = NoValue /\ summaryOutcome = NoValue
    /\ summaryOutcome' = CompressionServiceCompressMemories(memories, "c1", "sum")
    /\ UNCHANGED << memories, config, analysis, contextVars, compressVars,
                    tokenizerVars, serviceVars >>

NextAnalyze ==
    \/ Analyze
    \/ Compress

SpecAnalyze == InitAnalyze /\ [][NextAnalyze]_vars

----------------------------------------------------------------------------
(* Properties of the analyzer                                              *)

Keys(ms) == { ms[i].k : i \in 1..Len(ms) }

Analyzed == analysis # NoValue

\* C4: for every strategy, every memory list and every preserveRecentCount
\* >= 0 (0 and values above the list's length included), preserved.length
\* is min(preserveRecentCount, number of memories).
C4_PreservedLength ==
    Analyzed =>
        Len(analysis.preserved) = Min(config.preserveRecentCount, Len(memories))

\* C5: preserved and eligible are disjoint whatever the input order;
\* preserved is the last slice of the memories in ascending timestamp order
\* (it is ascending, it is made of the input's memories, and no memory
\* outside it is later than one inside), and no eligible memory is later
\* than a preserved one.
C5_PreservedIsLastSlice ==
    Analyzed =>
        LET P == analysis.preserved
            E == analysis.eligible
        IN  /\ Keys(P) \cap Keys(E) = {}
            /\ Cardinality(Keys(P)) = Len(P)
            /\ Range(P) \subseteq Range(memories)
            /\ Range(E) \subseteq Range(memories)
            /\ \A i, j \in 1..Len(P) : i < j => P[i].timestamp <= P[j].timestamp
            /\ \A m \in Range(memories) \ Range(P) :
                   \A p \in Range(P) : m.timestamp <= p.timestamp
            /\ \A e \in Range(E) : \A p \in Range(P) : e.timestamp <= p.timestamp

\* C5 witness: an input that is not in timestamp order, analysed into a
\* non-empty preserved and a non-empty eligible part.
C5_Witness ==
    /\ Analyzed
    /\ \E i \in 1..Len(memories) - 1 : memories[i].timestamp > memories[i + 1].timestamp
    /\ analysis.preserved # << >>
    /\ analysis.eligible # << >>

\* C6: under strategy hybrid the eligible set is the union of what
\* time_based, importance_based and token_based select on the same
\* candidate pool.
C6_HybridIsUnion ==
    (Analyzed /\ config.strategy = "hybrid") =>
        Keys(analysis.eligible) =
            Keys(FilterByTime(analysis.candidates, config))
            \cup Keys(FilterByImportance(analysis.candidates, config))
            \cup Keys(FilterByTokens(analysis.candidates, config))

\* The first position of the candidates, oldest first, at which the running
\* token sum passes maxTokensBeforeCompression; one past the end if none.
FirstOverflow(c, cfg) ==
    LET over == { i \in 1..Len(c) :
                    CalculateTotalTokens(SubSeq(c, 1, i))
                        > cfg.maxTokensBeforeCompression }
    IN  IF over = {} THEN Len(c) + 1
        ELSE CHOOSE i \in over : \A j \in over : i <= j

\* C7: under strategy token_based the eligible set is a suffix of the
\* candidates oldest to newest: the first memory that would push the running
\* sum above maxTokensBeforeCompression and every memory after it, and none
\* before it.
C7_TokenEligibleIsSuffix ==
    (Analyzed /\ config.strategy = "token_based") =>
        LET c == analysis.candidates
        IN  Keys(analysis.eligible) =
                { c[i].k : i \in FirstOverflow(c, config)..Len(c) }

----------------------------------------------------------------------------
(* Properties of CompressionService.compressMemories                       *)

\* compressMemories returned a summary.
Summarised == summaryOutcome # NoValue /\ summaryOutcome.error = "none"

\* C11: for every non-empty memory list, a single memory included, the
\* summary compressMemories returns has tokenCount <= originalTokenCount.
C11_TokenCountWithinOriginal ==
    Summarised =>
        summaryOutcome.summary.tokenCount <= summaryOutcome.summary.originalTokenCount

\* C12: for every non-empty memory list, whatever the importance of its
\* memories, the summary compressMemories returns has compressionRatio > 0.
C12_CompressionRatioPositive ==
    Summarised =>
        /\ summaryOutcome.summary.compressionRatio.den > 0
        /\ summaryOutcome.summary.compressionRatio.num > 0

\* C14: compressMemories of the empty list throws CompressionError and
\* returns no summary.
C14_EmptySetThrows ==
    (summaryOutcome # NoValue /\ Len(memories) = 0) =>
        /\ summaryOutcome.error = "CompressionError"
        /\ summaryOutcome.summary = NoValue

\* C14 witness: compressMemories was called with the empty list.
C14_Witness == summaryOutcome # NoValue /\ Len(memories) = 0

----------------------------------------------------------------------------
(* UniversalTokenizer.estimateTokens and AgentMemory.countTokens           *)

\* providerMultipliers, in hundredths; a key not in the table reads
\* undefined and ?? gives the entry of custom.
ProviderMultiplier(provider) ==
    CASE provider = "openai" -> 100
      [] provider = "anthropic" -> 115
      [] provider = "deepseek" -> 85
      [] provider = "google" -> 110
      [] provider = "meta" -> 125
      [] OTHER -> 120

\* estimateTokens(text, provider) of a text of len characters:
\* Math.ceil(Math.ceil(len / 3.5) * multiplier)
EstimateTokens(len, provider) ==
    LET baseTokens == CeilDiv(2 * len, 7)
    IN  CeilDiv(baseTokens * ProviderMultiplier(provider), 100)

\* MemoryConfigSchema: tokenBuffer defaults to 0.1, in hundredths here; no
\* defaultProvider configured, so countTokens estimates for 'openai'.
DefaultTokenBuffer == 10
MemoryConfig == [ defaultProvider |-> "openai", tokenBuffer |-> DefaultTokenBuffer ]

\* AgentMemory.countTokens(text): Math.ceil(tokens * (1 + tokenBuffer)).
\* In the doubles of the code the product is exact enough for the result to
\* be this quotient for every count below 50, which covers the model.
CountTokens(len) ==
    LET tokens == EstimateTokens(len, MemoryConfig.defaultProvider)
    IN  CeilDiv(tokens * (100 + MemoryConfig.tokenBuffer), 100)

----------------------------------------------------------------------------
(* UniversalTokenizer.countTokens                                          *)
(* A text is its length, its first 50 characters (head), and the number of *)
(* tokens the tiktoken encoder gives it (tok).  A tokenMultiplier is in    *)
(* hundredths, 0 standing for a config without one.                        *)

MaxProviders == 2       \* most provider configs given to the constructor

Texts ==
    { [ id |-> "empty", len |-> 0, head |-> "", tok |-> 0 ],
      [ id |-> "abc", len |-> 3, head |-> "abc", tok |-> 1 ],
      [ id |-> "sentence", len |-> 35, head |-> "Hello", tok |-> 9 ],
      [ id |-> "longA", len |-> 1000, head |-> "AAA", tok |-> 250 ],
      [ id |-> "longB", len |-> 1000, head |-> "AAA", tok |-> 300 ] }

\* The provider kinds estimateTokens is asked for; "mistral" is not a key of
\* providerMultipliers.
ProviderKinds == {"openai", "anthropic", "deepseek", "google", "meta", "custom", "mistral"}

ProviderNames == {"gpt", "claude"}
KindOf(name) == IF name = "gpt" THEN "openai" ELSE "anthropic"

\* ModelProviderConfig
ProviderConfigs ==
    { [ name |-> n, provider |-> KindOf(n), apiKey |-> k, tokenMultiplier |-> m ] :
        n \in ProviderNames, k \in BOOLEAN, m \in {0, 200} }

TokenStrategies == {"precise", "fast", "hybrid"}

\* The length below which hybrid asks for the API, and the default
\* maxCacheAge of getCachedResult, in seconds.
HybridApiLimit == 1000
DefaultMaxCacheAge == 300

\* The cache size cacheResult keeps to (1000 in the code).
CacheLimit == 2

\* Partial<TokenCountingOptions>; "none" is an option not given.
CountOptions ==
    [ provider : ProviderNames \cup {"none", "missing"},
      strategy : TokenStrategies \cup {"none"},
      useCache : BOOLEAN,
      maxCacheAge : {DefaultMaxCacheAge} ]

\* this.providers.get(providerName)
ProvidersGet(providerName) ==
    IF \E i \in 1..Len(providers) : providers[i].name = providerName
    THEN providers[CHOOSE i \in 1..Len(providers) : providers[i].name = providerName]
    ELSE NoValue

\* shouldUseAPI
ShouldUseAPI(strategy, textLength, provider) ==
    CASE strategy = "precise" -> TRUE
      [] strategy = "fast" -> FALSE
      [] strategy = "hybrid" -> textLength < HybridApiLimit /\ provider.apiKey
      [] OTHER -> FALSE

\* createEstimationResult
CreateEstimationResult(text, provider) ==
    [ tokens |-> EstimateTokens(text.len, provider),
      provider |-> provider,
      method |-> "estimation",
      accuracy |-> "medium",
      cached |-> FALSE ]

\* countTokensViaTiktoken
CountTokensViaTiktoken(text, provider) ==
    LET tokens == text.tok
        multiplier == IF provider.tokenMultiplier # 0 THEN provider.tokenMultiplier
                      ELSE ProviderMultiplier(provider.provider)
    IN  [ tokens |-> CeilDiv(tokens * multiplier, 100),
          provider |-> provider.provider,
          method |-> "tiktoken",
          accuracy |-> IF provider.provider = "openai" THEN "high" ELSE "medium",
          cached |-> FALSE ]

\* countTokensViaAPI
CountTokensViaAPI(text, provider) ==
    IF provider.provider = "openai" THEN CountTokensViaTiktoken(text, provider)
    ELSE CreateEstimationResult(text, provider.provider)

\* Whether countTokensForProvider reaches the encoder.
UsesEncoder(text, provider, strategy) ==
    LET useAPI == ShouldUseAPI(strategy, text.len, provider)
    IN  IF useAPI /\ provider.apiKey THEN provider.provider = "openai"
        ELSE strategy # "fast" /\ provider.provider = "openai"

\* countTokensForProvider: what it returns, or that it throws (the provider
\* is not registered, or the encoder throws).
CountTokensForProvider(text, providerName, strategy, encodeThrows) ==
    LET provider == ProvidersGet(providerName)
    IN  IF provider = NoValue THEN [ threw |-> TRUE, result |-> NoValue ]
        ELSE IF UsesEncoder(text, provider, strategy) /\ encodeThrows
        THEN [ threw |-> TRUE, result |-> NoValue ]
        ELSE LET useAPI == ShouldUseAPI(strategy, text.len, provider)
             IN  [ threw |-> FALSE,
                   result |->
                     IF useAPI /\ provider.apiKey THEN CountTokensViaAPI(text, provider)
                     ELSE IF strategy = "fast"
                          THEN CreateEstimationResult(text, provider.provider)
                     ELSE IF provider.provider = "openai"
                          THEN CountTokensViaTiktoken(text, provider)
                     ELSE CreateEstimationResult(text, provider.provider) ]

\* createCacheKey: `${text.length}_${text.slice(0, 50)}_${options}`
CreateCacheKey(text, options) ==
    [ len |-> text.len, head |-> text.head,
      provider |-> options.provider, strategy |-> options.strategy ]

CacheHas(c, key) == \E i \in 1..Len(c) : c[i].key = key
CacheIndex(c, key) == CHOOSE i \in 1..Len(c) : c[i].key = key
CacheDelete(c, key) == SelectSeq(c, LAMBDA e : e.key # key)

\* cacheResult dropping the entry it has just inserted.
CacheResultDropsNewest(c, key, res, now) ==
    LET entry == [ key |-> key, result |-> res, timestamp |-> now ]
        set == Append(c, entry)
    IN  IF Len(set) > CacheLimit THEN SubSeq(set, 1, Len(set) - 1) ELSE set

\* cacheResult: Map.set keeps the place of a key already present; past the
\* limit the first key of the map is deleted.
CacheResult(c, key, res, now) ==
    LET entry == [ key |-> key, result |-> res, timestamp |-> now ]
        set == IF CacheHas(c, key)
               THEN [ c EXCEPT ![CacheIndex(c, key)] = entry ]
               ELSE Append(c, entry)
    IN  IF Len(set) > CacheLimit THEN Tail(set) ELSE set

\* The try block of countTokens: the provider asked for, else the first
\* registered, else the estimate for openai.
ComputeTokens(text, options, strategy, encodeThrows) ==
    IF options.provider # "none"
    THEN CountTokensForProvider(text, options.provider, strategy, encodeThrows)
    ELSE IF Len(providers) > 0
    THEN CountTokensForProvider(text, providers[1].name, strategy, encodeThrows)
    ELSE [ threw |-> FALSE, result |-> CreateEstimationResult(text, "openai") ]

\* A catch that passes the error on: the promise rejects.
CatchRejects(text) == [ rejected |-> TRUE ]

\* The catch of countTokens: a warning is logged and the promise resolves
\* with the estimate for openai.
CatchResolves(text) == CreateEstimationResult(text, "openai")

\* countTokens(text, options); encodeThrows says whether the encoder throws
\* if it is reached.
CountTokensOp(text, options, encodeThrows) ==
    LET strategy == IF options.strategy = "none" THEN defaultStrategy
                    ELSE options.strategy
        key == CreateCacheKey(text, options)
        present == options.useCache /\ CacheHas(cache, key)
        age == IF present THEN clock - cache[CacheIndex(cache, key)].timestamp ELSE 0
        hit == present /\ age <= options.maxCacheAge
        looked == IF present /\ ~hit THEN CacheDelete(cache, key) ELSE cache
        computed == ComputeTokens(text, options, strategy, encodeThrows)
        call == [ op |-> "countTokens", text |-> text, options |-> options,
                  strategy |-> strategy, encodeThrows |-> encodeThrows ]
    IN  IF hit
        THEN /\ tokenResult' = [ call |-> call, result |->
                  [ cache[CacheIndex(cache, key)].result EXCEPT !.cached = TRUE ] ]
             /\ cache' = cache
             /\ stored' = stored
        ELSE IF computed.threw
        THEN /\ tokenResult' = [ call |-> call, result |-> CatchResolves(text) ]
             /\ cache' = looked
             /\ stored' = stored
        ELSE /\ tokenResult' = [ call |-> call, result |-> computed.result ]
             /\ cache' = IF options.useCache
                         THEN CacheResult(looked, key, computed.result, clock)
                         ELSE looked
             /\ stored' = IF options.useCache
                          THEN stored \cup { [ key |-> key, at |-> clock ] }
                          ELSE stored

\* The tokenizer as constructed: new UniversalTokenizer(providers,
\* defaultStrategy), the configs of distinct names.
InitTokenizer ==
    /\ \E n \in 0..Min(MaxProviders, Cardinality(ProviderNames)) :
         \E f \in [1..n -> ProviderConfigs] :
            /\ \A i, j \in 1..n : i # j => f[i].name # f[j].name
            /\ providers = f
    /\ defaultStrategy \in {"hybrid", "fast"}
    /\ cache = << >>
    /\ clock = 0
    /\ tokenResult = NoValue
    /\ stored = {}
    /\ IdleAnalyzer
    /\ IdleContext
    /\ IdleCompress
    /\ IdleServices

\* One call of countTokens.
CountTokensCall ==
    /\ tokenResult = NoValue
    /\ \E text \in Texts, options \in CountOptions, encodeThrows \in BOOLEAN :
          CountTokensOp(text, options, encodeThrows)
    /\ UNCHANGED << providers, defaultStrategy, clock,
                    analyzerVars, contextVars, compressVars,
                    serviceVars >>

\* One call of estimateTokens(text, provider).
EstimateTokensCall ==
    /\ tokenResult = NoValue
    /\ \E text \in Texts, provider \in ProviderKinds :
          tokenResult' =
              [ call |-> [ op |-> "estimateTokens", text |-> text, provider |-> provider ],
                result |-> [ tokens |-> EstimateTokens(text.len, provider) ] ]
    /\ UNCHANGED << providers, defaultStrategy, cache, clock, stored,
                    analyzerVars, contextVars, compressVars,
                    serviceVars >>

NextTokenizer ==
    \/ CountTokensCall
    \/ EstimateTokensCall

SpecTokenizer == InitTokenizer /\ [][NextTokenizer]_vars

----------------------------------------------------------------------------
(* The token cache over a sequence of calls.  Times are in seconds.        *)

MaxStores == 3          \* results cached between two clearCache calls
MaxTicks == 3           \* times the clock advances

\* What the clock advances by between two calls.
TickStep == 150

\* A maxCacheAge a caller passes instead of the default.
ShortMaxCacheAge == 100

CacheTexts == { t \in Texts : t.id \in {"abc", "longA", "longB"} }

\* The options of the calls: cached with either maxCacheAge, cached with
\* the fast strategy, and uncached.
CacheOptions ==
    [ provider : {"none"}, strategy : {"none"}, useCache : {TRUE},
      maxCacheAge : {ShortMaxCacheAge, DefaultMaxCacheAge} ]
    \cup [ provider : {"none"}, strategy : {"fast"}, useCache : {TRUE},
           maxCacheAge : {DefaultMaxCacheAge} ]
    \cup [ provider : {"none"}, strategy : {"none"}, useCache : {FALSE},
           maxCacheAge : {DefaultMaxCacheAge} ]

\* A tokenizer with one openai provider, without API key or multiplier.
InitTokenCache ==
    /\ providers = << [ name |-> "gpt", provider |-> "openai", apiKey |-> FALSE,
                        tokenMultiplier |-> 0 ] >>
    /\ defaultStrategy = "hybrid"
    /\ cache = << >>
    /\ clock = 0
    /\ tokenResult = NoValue
    /\ stored = {}
    /\ IdleAnalyzer
    /\ IdleContext
    /\ IdleCompress
    /\ IdleServices

\* A call of countTokens on the tokenizer in use.
CachedCountTokens ==
    /\ Cardinality(stored) < MaxStores
    /\ \E text \in CacheTexts, options \in CacheOptions :
          CountTokensOp(text, options, FALSE)
    /\ UNCHANGED << providers, defaultStrategy, clock,
                    analyzerVars, contextVars, compressVars,
                    serviceVars >>

\* A clearCache that leaves the entries in place.
ClearCacheKeeps == cache' = cache

\* this.cache.clear()
ClearCacheMap == cache' = << >>

\* clearCache()
ClearCache ==
    /\ ClearCacheMap
    /\ stored' = {}
    /\ tokenResult' = [ call |-> [ op |-> "clearCache" ], result |-> NoValue ]
    /\ UNCHANGED << providers, defaultStrategy, clock,
                    analyzerVars, contextVars, compressVars,
                    serviceVars >>

\* Time passes between two calls.
Tick ==
    /\ clock < MaxTicks * TickStep
    /\ clock' = clock + TickStep
    /\ UNCHANGED << providers, defaultStrategy, cache, tokenResult, stored,
                    analyzerVars, contextVars, compressVars,
                    serviceVars >>

NextTokenCache ==
    \/ CachedCountTokens
    \/ ClearCache
    \/ Tick

SpecTokenCache == InitTokenCache /\ [][NextTokenCache]_vars

----------------------------------------------------------------------------
(* Properties of the tokenizer                                             *)

Estimated == tokenResult # NoValue /\ tokenResult.call.op = "estimateTokens"
Counted == tokenResult # NoValue /\ tokenResult.call.op = "countTokens"

\* The provider config a countTokens call counts for: the one named in the
\* options, else the first registered; NoValue if there is none.
ConfigOf(call) ==
    IF call.options.provider # "none" THEN ProvidersGet(call.options.provider)
    ELSE IF Len(providers) > 0 THEN providers[1]
    ELSE NoValue

\* C18: for any text, estimateTokens(text, 'anthropic') >
\* estimateTokens(text, 'openai') > estimateTokens(text, 'deepseek').
C18_ProviderOrdering ==
    Estimated =>
        LET len == tokenResult.call.text.len
            tokens == tokenResult.result.tokens
        IN  /\ tokenResult.call.provider = "anthropic" =>
                  tokens > EstimateTokens(len, "openai")
            /\ tokenResult.call.provider = "openai" =>
                  tokens > EstimateTokens(len, "deepseek")

\* C19: a count produced for a registered provider whose config carries a
\* tokenMultiplier is the base count (the encoder's on the exact path, the
\* length / 3.5 on the heuristic path) scaled by the configured value.
C19_ConfiguredMultiplierScales ==
    Counted =>
        LET call == tokenResult.call
            cfg == ConfigOf(call)
            res == tokenResult.result
        IN  ( /\ cfg # NoValue
              /\ cfg.tokenMultiplier # 0
              /\ ~(call.encodeThrows /\ UsesEncoder(call.text, cfg, call.strategy)) ) =>
                res.tokens =
                    IF res.method = "tiktoken"
                    THEN CeilDiv(call.text.tok * cfg.tokenMultiplier, 100)
                    ELSE CeilDiv(CeilDiv(2 * call.text.len, 7) * cfg.tokenMultiplier, 100)

\* C20: under strategy hybrid the exact method is used only for a text
\* shorter than 1000 characters with a provider config that has an API key;
\* in every other case the result has method 'estimation'.
C20_HybridExactOnlyShortWithKey ==
    (Counted /\ tokenResult.call.strategy = "hybrid") =>
        LET call == tokenResult.call
            cfg == ConfigOf(call)
        IN  ~(cfg # NoValue /\ call.text.len < HybridApiLimit /\ cfg.apiKey) =>
                tokenResult.result.method = "estimation"

\* C21: countTokens never rejects, whatever the text, the strategy and the
\* provider name, also when the name is not registered or the encoder
\* throws; for a name that is not registered the result is the heuristic
\* estimate for openai, with method 'estimation' and provider 'openai'.
C21_CountTokensNeverRejects ==
    Counted =>
        /\ "rejected" \notin DOMAIN tokenResult.result
        /\ ( tokenResult.call.options.provider # "none"
              /\ ProvidersGet(tokenResult.call.options.provider) = NoValue ) =>
                /\ tokenResult.result.method = "estimation"
                /\ tokenResult.result.provider = "openai"
                /\ tokenResult.result.tokens =
                       EstimateTokens(tokenResult.call.text.len, "openai")
                /\ ~tokenResult.result.cached

\* C21 witness: a call naming a provider that is not registered resolved.
C21_Witness ==
    /\ Counted
    /\ tokenResult.call.options.provider = "missing"
    /\ tokenResult.call.text.len > 0

\* The key of the call tokenResult records.
KeyOf(tr) == CreateCacheKey(tr.call.text, tr.call.options)

C23_CachedOnlyIfFresh ==
    [][ CachedCountTokens =>
          LET call == tokenResult'.call
              res == tokenResult'.result
              fresh == \E e \in stored :
                          /\ e.key = KeyOf(tokenResult')
                          /\ clock - e.at <= call.options.maxCacheAge
          IN  /\ res.cached => (call.options.useCache /\ fresh)
              /\ ~call.options.useCache => ~res.cached
              /\ ~res.cached =>
                    res = ComputeTokens(call.text, call.options, call.strategy,
                                        FALSE).result
      ]_vars

\* C23 witness: a call was answered from the cache some time after its
\* result had been cached.
C23_Witness ==
    /\ Counted
    /\ tokenResult.result.cached
    /\ \E e \in stored : e.key = KeyOf(tokenResult) /\ e.at > 0 /\ clock > e.at

\* C30: a call answered from the cache returns the token count, provider
\* and method the same call returns when it computes (useCache false).
C30_CachingTransparent ==
    (Counted /\ tokenResult.result.cached) =>
        LET call == tokenResult.call
            fresh == ComputeTokens(call.text, call.options, call.strategy, FALSE).result
        IN  /\ tokenResult.result.tokens = fresh.tokens
            /\ tokenResult.result.provider = fresh.provider
            /\ tokenResult.result.method = fresh.method

----------------------------------------------------------------------------
(* AgentMemory: initialize(), disconnect() and the connection check of the *)
(* data operations.  The steps are cut at the awaits.                      *)

\* The operations that start with ensureConnected(), and what each asks of
\* a collaborator first once the check has passed.
DataOperations ==
    { "remember", "recall", "getHistory", "getRelevantContext",
      "summarizeOldConversations", "searchMemories", "deleteMemory",
      "deleteConversation", "getRelevantContextWithCompression",
      "compressMemories", "summarizeConversationWindow", "getCompressionStats" }

FirstRequest(op) ==
    IF op \in { "remember", "getRelevantContext", "searchMemories",
                "getRelevantContextWithCompression" }
    THEN "embedding" ELSE "query"

InitLifecycle ==
    /\ agent = [ isConnected |-> FALSE, init |-> "idle", disc |-> "idle",
                 op |-> NoValue ]
    /\ embedding = NoValue /\ soc = NoValue
    /\ IdleAnalyzer
    /\ IdleContext
    /\ IdleCompress
    /\ IdleTokenizer

LifecycleFrame ==
    UNCHANGED << embedding, soc, analyzerVars, contextVars, compressVars,
                 tokenizerVars >>

\* initialize() is called: client.connect() is awaited.
InitializeCall ==
    /\ agent.init = "idle"
    /\ agent' = [ agent EXCEPT !.init = "connect" ]
    /\ LifecycleFrame

\* client.connect() resolves: this.isConnected = true, and migrate() is
\* awaited.
ConnectResolves ==
    /\ agent.init = "connect"
    /\ agent' = [ agent EXCEPT !.isConnected = TRUE, !.init = "migrate" ]
    /\ LifecycleFrame

\* migrator.migrate() resolves: validateSchema() is awaited.
MigrateResolves ==
    /\ agent.init = "migrate"
    /\ agent' = [ agent EXCEPT !.init = "validate" ]
    /\ LifecycleFrame

\* validateSchema() resolves: with false, MemoryError is thrown inside the
\* try; with true, embeddingService.initialize() is awaited.
ValidateSchemaResolves ==
    /\ agent.init = "validate"
    /\ \E isValid \in BOOLEAN :
          agent' = [ agent EXCEPT !.init = IF isValid THEN "embed" ELSE "failed" ]
    /\ LifecycleFrame

\* embeddingService.initialize() resolves: cleanupExpiredMemories() is
\* awaited.
EmbeddingInitResolves ==
    /\ agent.init = "embed"
    /\ agent' = [ agent EXCEPT !.init = "cleanup" ]
    /\ LifecycleFrame

\* cleanupExpiredMemories() settles; its rejection is logged and ignored.
CleanupSettles ==
    /\ agent.init = "cleanup"
    /\ agent' = [ agent EXCEPT !.init = "done" ]
    /\ LifecycleFrame

\* catch (error) { throw new DatabaseConnectionError(error) }
InitializeCatch == [ agent EXCEPT !.init = "failed" ]

\* connect, migrate, validateSchema or embeddingService.initialize rejects:
\* initialize() rejects.
InitializeStepFails ==
    /\ agent.init \in { "connect", "migrate", "validate", "embed" }
    /\ agent' = InitializeCatch
    /\ LifecycleFrame

\* disconnect() is called: connected, client.end() is awaited; not
\* connected, it returns at once.
DisconnectCall ==
    /\ agent.disc = "idle"
    /\ agent' = [ agent EXCEPT !.disc = IF agent.isConnected THEN "end" ELSE "done" ]
    /\ LifecycleFrame

\* client.end() resolves: this.isConnected = false.
EndResolves ==
    /\ agent.disc = "end"
    /\ agent' = [ agent EXCEPT !.isConnected = FALSE, !.disc = "done" ]
    /\ LifecycleFrame

\* client.end() rejects: disconnect() rejects.
EndFails ==
    /\ agent.disc = "end"
    /\ agent' = [ agent EXCEPT !.disc = "failed" ]
    /\ LifecycleFrame

\* ensureConnected(): passes if this.isConnected, else throws MemoryError.
EnsureConnected(connected) == connected

\* A data operation is called with valid arguments: the check throws, or
\* the operation goes on to its first request.  The call is recorded with
\* where initialize() and disconnect() stood.
DataOperation ==
    /\ \E name \in DataOperations :
          agent' = [ agent EXCEPT !.op =
              [ name |-> name,
                init |-> agent.init,
                disc |-> agent.disc,
                outcome |-> IF EnsureConnected(agent.isConnected)
                            THEN "proceeds" ELSE "MemoryError: Database not connected",
                requests |-> IF EnsureConnected(agent.isConnected)
                             THEN { FirstRequest(name) } ELSE {} ] ]
    /\ LifecycleFrame

NextLifecycle ==
    \/ InitializeCall
    \/ ConnectResolves
    \/ MigrateResolves
    \/ ValidateSchemaResolves
    \/ EmbeddingInitResolves
    \/ CleanupSettles
    \/ InitializeStepFails
    \/ DisconnectCall
    \/ EndResolves
    \/ EndFails
    \/ DataOperation

SpecLifecycle == InitLifecycle /\ [][NextLifecycle]_vars

----------------------------------------------------------------------------
(* Properties of the connection check                                      *)

\* The last data operation failed the connection check and asked nothing
\* of the database or the embedding service.
RefusedNotConnected ==
    /\ agent.op.outcome = "MemoryError: Database not connected"
    /\ agent.op.requests = {}

\* C24: a data operation called before initialize() has been called, or
\* after disconnect() has returned, fails with MemoryError 'Database not
\* connected' and issues no query and no embedding request.
C24_RefusedUnlessConnected ==
    ( agent.op # NoValue /\ (agent.op.init = "idle" \/ agent.op.disc = "done") ) =>
        RefusedNotConnected

\* C29: after initialize() has rejected, at whatever step, a data operation
\* fails the connection check instead of issuing a query.
C29_FailedInitializeLeavesDisconnected ==
    ( agent.op # NoValue /\ agent.op.init = "failed" ) => RefusedNotConnected

----------------------------------------------------------------------------
(* EmbeddingService: initialize() and doInitialize().  The service is a    *)
(* singleton; a step is cut at each await of pipeline().                   *)

MaxInitCalls == 5
MaxLoadFailures == 2

\* The instance getInstance() creates: no embedder, not initialized, no
\* initialization promise.  calls is the history of initialize() calls,
\* each with how it was answered and whether its promise has settled;
\* started, loaded and failed count the pipeline() calls.
InitEmbedding ==
    /\ embedding = [ isInitialized |-> FALSE, initializationPromise |-> "null",
                     stage |-> "none", calls |-> << >>,
                     started |-> 0, loaded |-> 0, failed |-> 0 ]
    /\ agent = NoValue /\ soc = NoValue
    /\ IdleAnalyzer
    /\ IdleContext
    /\ IdleCompress
    /\ IdleTokenizer

EmbeddingFrame ==
    UNCHANGED << agent, soc, analyzerVars, contextVars, compressVars,
                 tokenizerVars >>

\* The calls that wait for the load in flight are settled with it.
SettleCalls(calls, how) ==
    [ i \in DOMAIN calls |->
        IF calls[i].settled = "pending"
        THEN [ calls[i] EXCEPT !.settled = how ] ELSE calls[i] ]

\* initialize() that starts a load whenever the service is not initialized.
InitializeUnshared(e) ==
    IF e.isInitialized
    THEN [ e EXCEPT !.calls = Append(@, [ how |-> "returned", settled |-> "resolved" ]) ]
    ELSE [ e EXCEPT !.initializationPromise = "pending",
                    !.stage = "first",
                    !.started = @ + 1,
                    !.calls = Append(@, [ how |-> "loads", settled |-> "pending" ]) ]

\* initialize(): returns if initialized; returns the promise of the load
\* in flight if there is one; else calls doInitialize(), which calls
\* pipeline() and awaits it, and keeps its promise.
Initialize(e) ==
    IF e.isInitialized
    THEN [ e EXCEPT !.calls = Append(@, [ how |-> "returned", settled |-> "resolved" ]) ]
    ELSE IF e.initializationPromise # "null"
    THEN [ e EXCEPT !.calls = Append(@, [ how |-> "shares", settled |-> "pending" ]) ]
    ELSE [ e EXCEPT !.initializationPromise = "pending",
                    !.stage = "first",
                    !.started = @ + 1,
                    !.calls = Append(@, [ how |-> "loads", settled |-> "pending" ]) ]

EmbeddingInitialize ==
    /\ Len(embedding.calls) < MaxInitCalls
    /\ embedding' = Initialize(embedding)
    /\ EmbeddingFrame

\* pipeline() resolves, in the first attempt or in the single-threaded
\* retry: the embedder is kept and isInitialized set.
PipelineResolves ==
    /\ embedding.stage \in { "first", "retry" }
    /\ embedding' = [ embedding EXCEPT !.isInitialized = TRUE,
                                       !.initializationPromise = "resolved",
                                       !.stage = "none",
                                       !.loaded = @ + 1,
                                       !.calls = SettleCalls(@, "resolved") ]
    /\ EmbeddingFrame

\* The first pipeline() rejects with the worker-thread error: pipeline()
\* is called again with one thread.
PipelineWorkerError ==
    /\ embedding.stage = "first"
    /\ embedding.failed < MaxLoadFailures
    /\ embedding' = [ embedding EXCEPT !.stage = "retry",
                                       !.started = @ + 1,
                                       !.failed = @ + 1 ]
    /\ EmbeddingFrame

\* The first pipeline() rejects with another error, or the retry rejects:
\* the promise is reset so that a later call tries again, and the calls
\* waiting are rejected.
PipelineRejects ==
    /\ embedding.stage \in { "first", "retry" }
    /\ embedding.failed < MaxLoadFailures
    /\ embedding' = [ embedding EXCEPT !.initializationPromise = "null",
                                       !.stage = "none",
                                       !.failed = @ + 1,
                                       !.calls = SettleCalls(@, "rejected") ]
    /\ EmbeddingFrame

NextEmbedding ==
    \/ EmbeddingInitialize
    \/ PipelineResolves
    \/ PipelineWorkerError
    \/ PipelineRejects

SpecEmbedding == InitEmbedding /\ [][NextEmbedding]_vars

----------------------------------------------------------------------------
(* Properties of EmbeddingService.initialize                               *)

CallsThat(how) == { i \in DOMAIN embedding.calls : embedding.calls[i].how = how }

\* C25: while no pipeline() call has failed, however many initialize()
\* calls there are the pipeline is loaded once: one pipeline() call is
\* started, by the first call; the calls made while it is in flight share
\* it, and the calls made after it completed return without loading.  (With
\* failures too the pipeline is never loaded a second time.)
C25_PipelineLoadedOnce ==
    /\ embedding.loaded <= 1
    /\ embedding.loaded = 1 <=> embedding.isInitialized
    /\ embedding.failed = 0 =>
          /\ embedding.started = (IF embedding.calls = << >> THEN 0 ELSE 1)
          /\ CallsThat("loads") \subseteq { 1 }
          /\ \A i \in DOMAIN embedding.calls :
                /\ embedding.calls[i].how = "returned" => embedding.isInitialized
                /\ embedding.calls[i].settled = "resolved" => embedding.loaded = 1
                /\ embedding.calls[i].settled # "rejected"

\* C25 witness: overlapping calls shared one load, which completed, and a
\* later call returned without loading.
C25_Witness ==
    /\ embedding.failed = 0
    /\ embedding.loaded = 1
    /\ embedding.started = 1
    /\ Cardinality(CallsThat("shares")) >= 2
    /\ CallsThat("returned") # {}

----------------------------------------------------------------------------
(* AgentMemory: getRelevantContext and getRelevantContextWithCompression   *)

\* calculateSemanticRelevanceScore: the mean of 0.7 * similarity + 0.3 *
\* importance, kept as the fraction num / (100 * den) with similarity and
\* importance in tenths; 0 for no message.
CalculateSemanticRelevanceScore(messages, similarities) ==
    IF Len(messages) = 0 \/ Len(similarities) = 0 THEN [ num |-> 0, den |-> 1 ]
    ELSE [ num |-> SumSeq([ i \in 1..Len(messages) |->
                              7 * (IF i <= Len(similarities) THEN similarities[i] ELSE 0)
                              + 3 * messages[i].importance ]),
           den |-> Len(messages) ]

\* mapRowToMessage
MapRowToMessage(row) ==
    [ kind |-> "memory", k |-> row.k, len |-> row.len, role |-> row.role,
      importance |-> row.importance ]

\* The packing loop without its break: a row that does not fit is skipped
\* and the rows after it are still tried.
RECURSIVE PackLoopNoBreak(_, _, _, _, _)
PackLoopNoBreak(rs, i, acc, sims, budget10) ==
    IF i > Len(rs) THEN [ messages |-> acc, similarities |-> sims ]
    ELSE LET message == MapRowToMessage(rs[i])
             messageTokens == CountTokens(message.len)
             totalTokens == SumSeq([ j \in 1..Len(acc) |-> CountTokens(acc[j].len) ])
         IN  IF 10 * (totalTokens + messageTokens) <= budget10
             THEN PackLoopNoBreak(rs, i + 1, Append(acc, message),
                                  Append(sims, 10 - rs[i].distance), budget10)
             ELSE PackLoopNoBreak(rs, i + 1, acc, sims, budget10)

\* The loop `for (const row of rows)` of getRelevantContext and of
\* getSemanticMemories from row i on: a row is taken while
\* totalTokens + messageTokens <= maxTokens, and the first that does not fit
\* ends the loop.  budget10 is ten times the limit (the limit is
\* maxTokens * 0.7 in getSemanticMemories).
RECURSIVE PackLoop(_, _, _, _, _)
PackLoop(rs, i, acc, sims, budget10) ==
    IF i > Len(rs) THEN [ messages |-> acc, similarities |-> sims ]
    ELSE LET message == MapRowToMessage(rs[i])
             messageTokens == CountTokens(message.len)
             totalTokens == SumSeq([ j \in 1..Len(acc) |-> CountTokens(acc[j].len) ])
         IN  IF 10 * (totalTokens + messageTokens) <= budget10
             THEN PackLoop(rs, i + 1, Append(acc, message),
                           Append(sims, 10 - rs[i].distance), budget10)
             ELSE [ messages |-> acc, similarities |-> sims ]

\* What getRelevantContext and getSemanticMemories build from the rows.
PackRows(rs, budget10) ==
    LET packed == PackLoop(rs, 1, << >>, << >>, budget10)
    IN  [ messages |-> packed.messages,
          totalTokens |-> SumSeq([ j \in 1..Len(packed.messages) |->
                                     CountTokens(packed.messages[j].len) ]),
          relevanceScore |->
              CalculateSemanticRelevanceScore(packed.messages, packed.similarities) ]

\* getRelevantSummaries: the loop over the summary rows with the stored
\* token_count, ended by the first row that does not fit.
RECURSIVE GetRelevantSummaries(_, _, _, _)
GetRelevantSummaries(srs, i, totalTokens, budget10) ==
    IF i > Len(srs) THEN << >>
    ELSE IF 10 * (totalTokens + srs[i].token_count) <= budget10
         THEN << srs[i] >> \o GetRelevantSummaries(srs, i + 1,
                                  totalTokens + srs[i].token_count, budget10)
         ELSE << >>

\* "[SUMMARY ".length + 2 * toISOString().length + " - ".length + "]: ".length
\* for dates of the years 0 to 9999 (24 characters each)
SummaryPrefixLen == 63

\* The message a summary is rendered as.
SummaryMessage(summary) ==
    [ kind |-> "summary", k |-> summary.k,
      len |-> SummaryPrefixLen + summary.len,
      role |-> "system", importance |-> 8 ]

\* `for (const summary of summaries)` of getRelevantContextWithCompression:
\* a summary is added if totalTokens + countTokens(summaryContent) fits
\* maxTokens, and the loop goes on when one does not.
RECURSIVE AddSummaries(_, _, _, _)
AddSummaries(summaries, i, ctx, limit) ==
    IF i > Len(summaries) THEN ctx
    ELSE LET summaryTokens == CountTokens(summaries[i].len)
         IN  IF ctx.totalTokens + summaryTokens <= limit
             THEN AddSummaries(summaries, i + 1,
                      [ messages |-> Append(ctx.messages, SummaryMessage(summaries[i])),
                        totalTokens |-> ctx.totalTokens + summaryTokens ], limit)
             ELSE AddSummaries(summaries, i + 1, ctx, limit)

NotSystem(m) == m.role # "system"

\* Values the ranked queries can return.
ContentLens == {7, 28}
Distances == {2, 15}
Roles == {"user", "system"}
RowAttrs ==
    [ len : ContentLens, distance : Distances, role : {"user"} ]
        \cup [ len : {7}, distance : {2}, role : Roles ]
SummaryRowAttrs == [ len : {7, 14}, token_count : {1, 4} ]
MaxTokensValues == {5, 10, 20}

MakeRows(n, f) ==
    [ i \in 1..n |->
        [ k |-> i, len |-> f[i].len, role |-> f[i].role, importance |-> 5,
          distance |-> f[i].distance ] ]

MakeSummaryRows(n, f) ==
    [ i \in 1..n |-> [ k |-> i, len |-> f[i].len, token_count |-> f[i].token_count ] ]

\* ORDER BY distance ASC
Ranked(f, n) == \A i \in 1..n - 1 : f[i].distance <= f[i + 1].distance

InitContext ==
    /\ \E n \in 0..MaxRows : \E f \in [1..n -> RowAttrs] :
          /\ Ranked(f, n)
          /\ rows = MakeRows(n, f)
    /\ \E n \in 0..MaxSummaryRows : \E f \in [1..n -> SummaryRowAttrs] :
          summaryRows = MakeSummaryRows(n, f)
    /\ maxTokens \in MaxTokensValues
    /\ context = NoValue
    /\ IdleAnalyzer
    /\ IdleCompress
    /\ IdleServices
    /\ IdleTokenizer

\* getRelevantContext(conversation, query, maxTokens), rows being what the
\* ranked query over the conversation returned
GetRelevantContext ==
    /\ context = NoValue
    /\ context' = [ call |-> "getRelevantContext" ] @@ PackRows(rows, 10 * maxTokens)
    /\ UNCHANGED << rows, summaryRows, maxTokens, analyzerVars, compressVars,
                    tokenizerVars, serviceVars >>

\* getRelevantContextWithCompression(query, maxTokens)
GetRelevantContextWithCompression ==
    /\ context = NoValue
    /\ LET rawMemories == PackRows(rows, 7 * maxTokens)
           summaries == GetRelevantSummaries(summaryRows, 1, 0, 3 * maxTokens)
           all == AddSummaries(summaries, 1,
                      [ messages |-> rawMemories.messages,
                        totalTokens |-> rawMemories.totalTokens ], maxTokens)
           scored == SelectSeq(all.messages, NotSystem)
       IN  context' =
             [ call |-> "getRelevantContextWithCompression",
               messages |-> all.messages,
               totalTokens |-> all.totalTokens,
               relevanceScore |->
                   CalculateSemanticRelevanceScore(scored, [ i \in 1..Len(scored) |-> 8 ]),
               compressionInfo |->
                   [ hasCompressedData |-> Len(summaries) > 0,
                     summariesIncluded |-> Len(summaries),
                     rawMemoriesIncluded |-> Len(rawMemories.messages) ] ]
    /\ UNCHANGED << rows, summaryRows, maxTokens, analyzerVars, compressVars,
                    tokenizerVars, serviceVars >>

NextContext ==
    \/ GetRelevantContext
    \/ GetRelevantContextWithCompression

SpecContext == InitContext /\ [][NextContext]_vars

----------------------------------------------------------------------------
(* Properties of context assembly                                          *)

\* The token count of the first n rows.
PrefixTokens(n) == SumSeq([ i \in 1..n |-> CountTokens(rows[i].len) ])

\* The length of the longest prefix of the ranked rows that fits maxTokens.
LongestPrefix ==
    CHOOSE n \in 0..Len(rows) :
        /\ PrefixTokens(n) <= maxTokens
        /\ \A m \in 0..Len(rows) : PrefixTokens(m) <= maxTokens => m <= n

Returned(call) == context # NoValue /\ context.call = call

\* C1: getRelevantContext returns exactly the longest prefix of the ranked
\* rows whose cumulative token count is at most maxTokens (no row after the
\* first that overflows is admitted), and totalTokens, the sum of the
\* returned messages' counts, is at most maxTokens.
C1_LongestPrefix ==
    Returned("getRelevantContext") =>
        /\ Len(context.messages) = LongestPrefix
        /\ \A i \in 1..Len(context.messages) : context.messages[i].k = rows[i].k
        /\ context.totalTokens = PrefixTokens(Len(context.messages))
        /\ context.totalTokens <= maxTokens

\* C1 witness: the loop stopped at a row that overflows although a later,
\* smaller row would still have fitted.
C1_Witness ==
    /\ Returned("getRelevantContext")
    /\ Len(context.messages) >= 1
    /\ \E i \in Len(context.messages) + 2..Len(rows) :
          context.totalTokens + CountTokens(rows[i].len) <= maxTokens

\* C2: the token counts of the contents of the messages
\* getRelevantContextWithCompression returns, raw memories and rendered
\* summaries, counted as the packing counts, sum to at most maxTokens.
C2_ReturnedContentWithinBudget ==
    Returned("getRelevantContextWithCompression") =>
        SumSeq([ i \in 1..Len(context.messages) |->
                    CountTokens(context.messages[i].len) ]) <= maxTokens

\* The summary entries and the raw-memory entries of the returned messages.
IsSummaryEntry(m) == m.kind = "summary"
IsRawEntry(m) == m.kind = "memory"
SummaryEntries == SelectSeq(context.messages, IsSummaryEntry)
RawEntries == SelectSeq(context.messages, IsRawEntry)

\* The stored token counts of the first n ranked summary rows.
SummaryPrefixTokens(n) == SumSeq([ i \in 1..n |-> summaryRows[i].token_count ])

\* The length of the longest prefix of the ranked summary rows whose
\* token counts stay within 0.3 * maxTokens.
LongestSummaryPrefix ==
    CHOOSE n \in 0..Len(summaryRows) :
        /\ 10 * SummaryPrefixTokens(n) <= 3 * maxTokens
        /\ \A m \in 0..Len(summaryRows) :
              10 * SummaryPrefixTokens(m) <= 3 * maxTokens => m <= n

\* C16: the relevanceScore getRelevantContextWithCompression returns is the
\* blend over exactly the raw-memory entries of the result: every raw memory
\* included takes part, whatever its role, and no summary entry does.
C16_RelevanceOverRawEntries ==
    Returned("getRelevantContextWithCompression") =>
        context.relevanceScore =
            CalculateSemanticRelevanceScore(RawEntries,
                                            [ i \in 1..Len(RawEntries) |-> 8 ])

\* C26: every Context returned by getRelevantContext or
\* getRelevantContextWithCompression has a relevanceScore in [0, 1]; the
\* score is num / (100 * den).
C26_RelevanceScoreInUnitInterval ==
    context # NoValue =>
        /\ 0 <= context.relevanceScore.num
        /\ context.relevanceScore.num <= 100 * context.relevanceScore.den

\* C17: compressionInfo.summariesIncluded is the number of summary entries in
\* messages and rawMemoriesIncluded the number of raw-memory entries, so the
\* two sum to messages.length.
C17_CompressionInfoCountsEntries ==
    Returned("getRelevantContextWithCompression") =>
        /\ context.compressionInfo.summariesIncluded = Len(SummaryEntries)
        /\ context.compressionInfo.rawMemoriesIncluded = Len(RawEntries)
        /\ context.compressionInfo.summariesIncluded
             + context.compressionInfo.rawMemoriesIncluded = Len(context.messages)

\* C15: the summary entries getRelevantContextWithCompression returns are
\* exactly the longest prefix of the ranked summaries whose cumulative token
\* count stays within 0.3 * maxTokens, whatever the raw memories used.
C15_SummariesPackedIndependently ==
    Returned("getRelevantContextWithCompression") =>
        /\ Len(SummaryEntries) = LongestSummaryPrefix
        /\ \A i \in 1..Len(SummaryEntries) : SummaryEntries[i].k = summaryRows[i].k

----------------------------------------------------------------------------
(* AgentMemory.compressMemories: one process per invocation.  The steps    *)
(* are cut at its awaits: the SELECT, storeSummary, the DELETE.            *)

Runs == {"run1", "run2"}

\* The rows of a table as a query returns them ORDER BY created_at ASC
\* (rows of equal created_at in the order of their ids).
RECURSIVE ById(_)
ById(S) ==
    IF S = {} THEN << >>
    ELSE LET m == CHOOSE x \in S : \A y \in S : x.id <= y.id
         IN  << m >> \o ById(S \ {m})

OrderByCreatedAt(S) == SortByTimestamp(ById(S))

\* The kinds of memory the table holds: of one conversation or the other,
\* old or recent, short and of importance 0.5 or long and of importance 0.2.
DbKinds ==
    << [ conversation |-> "c1", timestamp |-> 1, importance |-> 5, tok |-> 1 ],
       [ conversation |-> "c1", timestamp |-> 1, importance |-> 2, tok |-> 9 ],
       [ conversation |-> "c2", timestamp |-> 1, importance |-> 5, tok |-> 1 ],
       [ conversation |-> "c2", timestamp |-> 1, importance |-> 2, tok |-> 9 ],
       [ conversation |-> "c1", timestamp |-> 2, importance |-> 5, tok |-> 1 ] >>

\* The table with n memories, memory i of kind f[i]; ids are in the order
\* of the kinds.
MakeDbMemories(n, f) ==
    { [ k |-> i, id |-> i, conversation |-> DbKinds[f[i]].conversation,
        timestamp |-> DbKinds[f[i]].timestamp,
        importance |-> DbKinds[f[i]].importance,
        tok |-> DbKinds[f[i]].tok ] : i \in 1..n }

\* The configs compressMemories is called with.
CompressConfigs ==
    [ strategy : {"time_based", "importance_based"},
      maxTokensBeforeCompression : {2},
      compressionRatio : {DefaultCompressionRatio},
      timeThresholdDays : {1},
      importanceThreshold : {DefaultImportanceThreshold},
      preserveRecentCount : {1} ]

NoLocal == [ config |-> NoValue, allMemories |-> << >>, analysis |-> NoValue,
             groups |-> << >>, gi |-> 0, summary |-> NoValue,
             totalCompressedMemories |-> 0, totalSummariesCreated |-> 0,
             totalTokensReclaimed |-> 0 ]

InitCompress ==
    /\ \E n \in 0..MaxDbMemories : \E f \in [1..n -> 1..Len(DbKinds)] :
          /\ \A i \in 1..n - 1 : f[i] <= f[i + 1]
          /\ dbMemories = MakeDbMemories(n, f)
    /\ dbSummaries = {}
    /\ pc = [ r \in Runs |-> "idle" ]
    /\ local = [ r \in Runs |-> NoLocal ]
    /\ result = [ r \in Runs |-> NoValue ]
    /\ deleted = [ r \in Runs |-> {} ]
    /\ thrown = [ r \in Runs |-> FALSE ]
    /\ IdleAnalyzer
    /\ IdleContext
    /\ IdleTokenizer
    /\ IdleServices

\* A guard that lets one invocation in at a time.
CompressMemoriesGuardExclusive(r) ==
    \A o \in Runs \ {r} : pc[o] \in {"idle", "done", "failed"}

\* What compressMemories checks before it starts: ensureConnected(), which
\* passes on an initialized instance; no lock, no check for a run in flight.
CompressMemoriesGuard(r) == TRUE

\* compressMemories(config) is called: the service is configured and the
\* SELECT of all the agent's memories is issued.
CompressMemoriesCall(r) ==
    /\ pc[r] = "idle"
    /\ CompressMemoriesGuard(r)
    /\ \E cfg \in CompressConfigs :
          local' = [ local EXCEPT ![r].config = cfg ]
    /\ pc' = [ pc EXCEPT ![r] = "fetch" ]
    /\ UNCHANGED << dbMemories, dbSummaries, result, deleted, thrown,
                    analyzerVars, contextVars,
                    tokenizerVars, serviceVars >>

\* A no-op result that counts as preserved only what the analyzer preserved.
NoOpResultFromPreserved(l) ==
    [ strategy |-> l.config.strategy,
      memoriesProcessed |-> Len(l.allMemories),
      memoriesCompressed |-> 0,
      memoriesPreserved |-> Len(l.analysis.preserved),
      originalTokenCount |-> l.analysis.tokenAnalysis.total,
      compressedTokenCount |-> l.analysis.tokenAnalysis.total,
      compressionRatio |-> [ num |-> 1, den |-> 1 ],
      tokensReclaimed |-> 0,
      summariesCreated |-> 0 ]

\* The result of the no-op path.
NoOpResult(l) ==
    [ strategy |-> l.config.strategy,
      memoriesProcessed |-> Len(l.allMemories),
      memoriesCompressed |-> 0,
      memoriesPreserved |-> Len(l.allMemories),
      originalTokenCount |-> l.analysis.tokenAnalysis.total,
      compressedTokenCount |-> l.analysis.tokenAnalysis.total,
      compressionRatio |-> [ num |-> 1, den |-> 1 ],
      tokensReclaimed |-> 0,
      summariesCreated |-> 0 ]

\* The result with memoriesPreserved taken from the analyzer's preserved.
CompressionResultFromPreserved(l) ==
    [ strategy |-> l.config.strategy,
      memoriesProcessed |-> Len(l.allMemories),
      memoriesCompressed |-> l.totalCompressedMemories,
      memoriesPreserved |-> Len(l.analysis.preserved),
      originalTokenCount |-> l.analysis.tokenAnalysis.total,
      compressedTokenCount |-> l.analysis.tokenAnalysis.total - l.totalTokensReclaimed,
      compressionRatio |->
          [ num |-> l.analysis.tokenAnalysis.total - l.totalTokensReclaimed,
            den |-> l.analysis.tokenAnalysis.total ],
      tokensReclaimed |-> l.totalTokensReclaimed,
      summariesCreated |-> l.totalSummariesCreated ]

\* The result after the loop over the conversation groups.
CompressionResult(l) ==
    [ strategy |-> l.config.strategy,
      memoriesProcessed |-> Len(l.allMemories),
      memoriesCompressed |-> l.totalCompressedMemories,
      memoriesPreserved |-> Len(l.allMemories) - l.totalCompressedMemories,
      originalTokenCount |-> l.analysis.tokenAnalysis.total,
      compressedTokenCount |-> l.analysis.tokenAnalysis.total - l.totalTokensReclaimed,
      compressionRatio |->
          [ num |-> l.analysis.tokenAnalysis.total - l.totalTokensReclaimed,
            den |-> l.analysis.tokenAnalysis.total ],
      tokensReclaimed |-> l.totalTokensReclaimed,
      summariesCreated |-> l.totalSummariesCreated ]

\* The SELECT resolves: the memories are analysed; with nothing eligible the
\* call resolves with the no-op result, otherwise the eligible memories are
\* grouped by conversation and the loop starts.
FetchResolves(r) ==
    /\ pc[r] = "fetch"
    /\ LET allMemories == OrderByCreatedAt(dbMemories)
           an == AnalyzeCompressionCandidates(allMemories, local[r].config)
           l == [ local[r] EXCEPT !.allMemories = allMemories, !.analysis = an ]
       IN  IF Len(an.eligible) = 0
           THEN /\ local' = [ local EXCEPT ![r] = l ]
                /\ result' = [ result EXCEPT ![r] = NoOpResult(l) ]
                /\ pc' = [ pc EXCEPT ![r] = "done" ]
           ELSE /\ local' = [ local EXCEPT ![r] =
                        [ l EXCEPT !.groups = GroupByConversation(an.eligible),
                                   !.gi = 1 ] ]
                /\ result' = result
                /\ pc' = [ pc EXCEPT ![r] = "summarise" ]
    /\ UNCHANGED << dbMemories, dbSummaries, deleted, thrown,
                    analyzerVars, contextVars,
                    tokenizerVars, serviceVars >>

\* The head of a loop iteration: the group is summarised and storeSummary
\* is called.
Summarise(r) ==
    /\ pc[r] = "summarise"
    /\ LET g == local[r].groups[local[r].gi]
       IN  local' = [ local EXCEPT ![r].summary =
                        CompressMemories(g.memories, g.conversationId,
                                         << r, local[r].gi >>) ]
    /\ pc' = [ pc EXCEPT ![r] = "store" ]
    /\ UNCHANGED << dbMemories, dbSummaries, result, deleted, thrown,
                    analyzerVars, contextVars,
                    tokenizerVars, serviceVars >>

\* storeSummary goes on to the DELETE without the INSERT having been made
\* (the promise not awaited).
StoreSummaryNotAwaited(r) ==
    /\ pc[r] = "store"
    /\ pc' = [ pc EXCEPT ![r] = "delete" ]
    /\ UNCHANGED << dbMemories, dbSummaries, local, result, deleted, thrown,
                    analyzerVars, contextVars,
                    tokenizerVars, serviceVars >>

\* The CHECK constraints of the table the INSERT of storeSummary is written
\* for: compression_ratio > 0, token_count > 0, original_token_count > 0,
\* compression_ratio <= 1.0, time_window_end >= time_window_start,
\* token_count <= original_token_count.
SummaryRowAccepted(summary) ==
    /\ summary.compressionRatio.num > 0
    /\ summary.tokenCount > 0
    /\ summary.originalTokenCount > 0
    /\ summary.compressionRatio.num <= summary.compressionRatio.den
    /\ summary.timeWindow.end >= summary.timeWindow.start
    /\ summary.tokenCount <= summary.originalTokenCount

\* storeSummary resolves: the summary row is inserted, and the DELETE of
\* the group's memories is issued.
StoreSummary(r) ==
    /\ pc[r] = "store"
    /\ SummaryRowAccepted(local[r].summary)
    /\ dbSummaries' = dbSummaries \cup { local[r].summary }
    /\ pc' = [ pc EXCEPT ![r] = "delete" ]
    /\ UNCHANGED << dbMemories, local, result, deleted, thrown,
                    analyzerVars, contextVars,
                    tokenizerVars, serviceVars >>

\* A DELETE by conversation instead of by id: every memory of the group's
\* conversation that is in the table when the DELETE runs is removed.
DeleteByConversation(r) ==
    /\ pc[r] = "delete"
    /\ LET l == local[r]
           g == l.groups[l.gi]
           memoryIds == { m.id : m \in { x \in dbMemories :
                                           x.conversation = g.conversationId } }
           l2 == [ l EXCEPT
                     !.totalCompressedMemories = @ + Len(g.memories),
                     !.totalSummariesCreated = @ + 1,
                     !.totalTokensReclaimed =
                         @ + (l.summary.originalTokenCount - l.summary.tokenCount) ]
       IN  /\ dbMemories' = { m \in dbMemories : m.id \notin memoryIds }
           /\ deleted' = [ deleted EXCEPT ![r] = @ \cup memoryIds ]
           /\ IF l.gi < Len(l.groups)
              THEN /\ local' = [ local EXCEPT ![r] = [ l2 EXCEPT !.gi = @ + 1 ] ]
                   /\ result' = result
                   /\ pc' = [ pc EXCEPT ![r] = "summarise" ]
              ELSE /\ local' = [ local EXCEPT ![r] = l2 ]
                   /\ result' = [ result EXCEPT ![r] = CompressionResult(l2) ]
                   /\ pc' = [ pc EXCEPT ![r] = "done" ]
    /\ UNCHANGED << dbSummaries, thrown, analyzerVars, contextVars,
                    tokenizerVars, serviceVars >>

\* The DELETE ... WHERE id = ANY(memoryIds) resolves: the rows are gone, the
\* totals are updated, and the loop goes to its next group or the call
\* resolves with its result.
DeleteResolves(r) ==
    /\ pc[r] = "delete"
    /\ LET l == local[r]
           g == l.groups[l.gi]
           memoryIds == { g.memories[i].id : i \in 1..Len(g.memories) } \ {0}
           l2 == [ l EXCEPT
                     !.totalCompressedMemories = @ + Len(g.memories),
                     !.totalSummariesCreated = @ + 1,
                     !.totalTokensReclaimed =
                         @ + (l.summary.originalTokenCount - l.summary.tokenCount) ]
       IN  /\ dbMemories' = { m \in dbMemories : m.id \notin memoryIds }
           /\ deleted' = [ deleted EXCEPT ![r] = @ \cup memoryIds ]
           /\ IF l.gi < Len(l.groups)
              THEN /\ local' = [ local EXCEPT ![r] = [ l2 EXCEPT !.gi = @ + 1 ] ]
                   /\ result' = result
                   /\ pc' = [ pc EXCEPT ![r] = "summarise" ]
              ELSE /\ local' = [ local EXCEPT ![r] = l2 ]
                   /\ result' = [ result EXCEPT ![r] = CompressionResult(l2) ]
                   /\ pc' = [ pc EXCEPT ![r] = "done" ]
    /\ UNCHANGED << dbSummaries, thrown, analyzerVars, contextVars,
                    tokenizerVars, serviceVars >>

\* A catch that logs the error and goes on with the next group.
CatchAndContinue(r) ==
    /\ result' = result
    /\ IF pc[r] # "fetch" /\ local[r].gi < Len(local[r].groups)
       THEN /\ local' = [ local EXCEPT ![r].gi = @ + 1 ]
            /\ pc' = [ pc EXCEPT ![r] = "summarise" ]
       ELSE /\ local' = local
            /\ pc' = [ pc EXCEPT ![r] = "failed" ]

\* catch (error) { throw new MemoryError(...) }: the call rejects; what it
\* stored and deleted so far is left as it is.
CatchAndReject(r) ==
    /\ pc' = [ pc EXCEPT ![r] = "failed" ]
    /\ UNCHANGED << local, result >>

\* The SELECT, the summarisation, storeSummary (the embedding request or the
\* INSERT) or the DELETE throws.
StepFails(r) ==
    /\ pc[r] \in {"fetch", "summarise", "store", "delete"}
    /\ thrown' = [ thrown EXCEPT ![r] = TRUE ]
    /\ CatchAndReject(r)
    /\ UNCHANGED << dbMemories, dbSummaries, deleted, analyzerVars, contextVars,
                    tokenizerVars, serviceVars >>

Next ==
    \E r \in Runs :
        \/ CompressMemoriesCall(r)
        \/ FetchResolves(r)
        \/ Summarise(r)
        \/ StoreSummary(r)
        \/ DeleteResolves(r)
        \/ StepFails(r)

Spec == InitCompress /\ [][Next]_vars

----------------------------------------------------------------------------
(* Properties of AgentMemory.compressMemories                              *)

\* The summaries an invocation has stored.
SummariesOf(r) == { s \in dbSummaries : s.id[1] = r }

\* C3: every CompressionResult, of the no-op path and of the compressing
\* path, for any number of conversation groups, has
\* memoriesProcessed = memoriesCompressed + memoriesPreserved, where
\* memoriesProcessed counts the memories fetched and memoriesCompressed the
\* memories of the groups compressed.
C3_ProcessedIsCompressedPlusPreserved ==
    \A r \in Runs :
        result[r] # NoValue =>
            /\ result[r].memoriesProcessed =
                   result[r].memoriesCompressed + result[r].memoriesPreserved
            /\ result[r].memoriesProcessed = Len(local[r].allMemories)
            /\ result[r].memoriesCompressed = Cardinality(deleted[r])

\* C3 witness: a run resolved after compressing two conversation groups,
\* with memories left.
C3_Witness ==
    \E r \in Runs :
        /\ result[r] # NoValue
        /\ result[r].summariesCreated = 2
        /\ result[r].memoriesCompressed < result[r].memoriesProcessed

\* C13: a run in which the analyzer found no eligible memory resolves with
\* memoriesCompressed 0, memoriesPreserved = memoriesProcessed (the number of
\* memories fetched), compressionRatio 1.0, tokensReclaimed 0 and
\* summariesCreated 0, and has stored no summary and deleted no memory.
C13_NoOpWhenNothingEligible ==
    \A r \in Runs :
        (local[r].analysis # NoValue /\ Len(local[r].analysis.eligible) = 0) =>
            /\ pc[r] = "done"
            /\ result[r] # NoValue
            /\ result[r].memoriesCompressed = 0
            /\ result[r].memoriesProcessed = Len(local[r].allMemories)
            /\ result[r].memoriesPreserved = result[r].memoriesProcessed
            /\ result[r].compressionRatio = [ num |-> 1, den |-> 1 ]
            /\ result[r].tokensReclaimed = 0
            /\ result[r].summariesCreated = 0
            /\ SummariesOf(r) = {}
            /\ deleted[r] = {}

\* C13 witness: a time_based run over two memories, both younger than the
\* threshold, has resolved.
C13_Witness ==
    \E r \in Runs :
        /\ pc[r] = "done"
        /\ local[r].config.strategy = "time_based"
        /\ Len(local[r].allMemories) = 2
        /\ \A i \in 1..2 :
              local[r].allMemories[i].timestamp >= Now - local[r].config.timeThresholdDays
        /\ Len(local[r].analysis.eligible) = 0

\* C8: in every state of a run, aborted or not, each memory whose DELETE the
\* run has executed is listed in originalMemoryIds of a summary the run has
\* already inserted.
C8_DeletedOnlyAfterSummaryStored ==
    \A r \in Runs :
        \A id \in deleted[r] :
            \E s \in SummariesOf(r) : id \in Range(s.originalMemoryIds)

\* C8 witness: a run that deleted a group's memories and was then aborted by
\* a failure in its next group.
C8_Witness ==
    \E r \in Runs :
        /\ pc[r] = "failed"
        /\ deleted[r] # {}
        /\ local[r].gi = 2

\* C9: once a step of a run has thrown, the call has rejected (no result),
\* the throwing step changed neither table, and no later step of that run
\* stores a summary or deletes a memory; the summaries it stored before stay
\* stored and the memories it deleted stay deleted.
C9_FailureAbortsRun ==
    [][ \A r \in Runs :
          thrown'[r] =>
              /\ pc'[r] = "failed"
              /\ result'[r] = NoValue
              /\ SummariesOf(r)' = SummariesOf(r)
              /\ deleted'[r] = deleted[r]
              /\ local'[r] = local[r]
              /\ \A m \in dbMemories' : m.id \notin deleted[r]
              /\ ~thrown[r] => (dbMemories' = dbMemories /\ dbSummaries' = dbSummaries)
      ]_vars

\* C9 witness: a run rejected in its second group, with the first group's
\* summary stored and its memories deleted, and the second group's memories
\* still in the table.
C9_Witness ==
    \E r \in Runs :
        /\ thrown[r] /\ pc[r] = "failed"
        /\ local[r].gi = 2
        /\ Cardinality(SummariesOf(r)) = 1
        /\ deleted[r] # {}
        /\ \A o \in Runs \ {r} : pc[o] = "idle"
        /\ \A i \in 1..Len(local[r].groups[2].memories) :
              local[r].groups[2].memories[i] \in dbMemories

\* C10: nothing keeps a second compressMemories from starting while another
\* is in flight: whatever the other invocations are doing, an invocation not
\* yet made can be made.
C10_NoMutualExclusion ==
    \A r \in Runs : pc[r] = "idle" => ENABLED CompressMemoriesCall(r)

\* C10 witness: two invocations fetched the same snapshot, both stored a
\* summary and both executed the DELETE of the same memory: two stored
\* summaries list the same original memory.
C10_Witness ==
    \E s1, s2 \in dbSummaries :
        /\ s1.id[1] # s2.id[1]
        /\ Range(s1.originalMemoryIds) \cap Range(s2.originalMemoryIds) # {}
        /\ deleted[s1.id[1]] \cap deleted[s2.id[1]] # {}

----------------------------------------------------------------------------
(* remember() and summarizeOldConversations() beside a compressMemories    *)
(* run: the three work on the same table, and the steps of the two         *)
(* multi-statement calls are cut at their awaits.                          *)

MaxInitialMemories == 2
MaxRemembers == 2

\* summarizeOldConversations: cutoffDate.setDate(cutoffDate.getDate() - 7)
SummarizeOldDays == 7

\* The kinds of memory remember() is called with: the timestamp is the
\* caller's (MessageSchema defaults it to the time of the call), so a memory
\* can be stored with any age: older than the 7-day cutoff or recent.
RememberKinds ==
    << [ conversation |-> "c1", timestamp |-> Now - 8, importance |-> 5, tok |-> 1 ],
       [ conversation |-> "c1", timestamp |-> Now - 8, importance |-> 2, tok |-> 9 ],
       [ conversation |-> "c1", timestamp |-> 2, importance |-> 5, tok |-> 1 ],
       [ conversation |-> "c2", timestamp |-> Now - 8, importance |-> 5, tok |-> 1 ] >>

MemoryOfKind(id, kind) ==
    [ k |-> id, id |-> id, conversation |-> kind.conversation,
      timestamp |-> kind.timestamp, importance |-> kind.importance,
      tok |-> kind.tok ]

\* soc is the summarizeOldConversations call: where it stands, what it
\* fetched, the summary it built and the ids its DELETE removed; with it,
\* the number of remember() calls made so far.
NoSummarize ==
    [ pc |-> "idle", conversation |-> "none", memories |-> << >>,
      summary |-> NoValue, removed |-> {}, remembered |-> 0 ]

InitInterleaved ==
    /\ \E n \in 0..MaxInitialMemories : \E f \in [1..n -> 1..Len(RememberKinds)] :
          /\ \A i \in 1..n - 1 : f[i] <= f[i + 1]
          /\ dbMemories = { MemoryOfKind(i, RememberKinds[f[i]]) : i \in 1..n }
    /\ dbSummaries = {}
    /\ pc = [ r \in Runs |-> "idle" ]
    /\ local = [ r \in Runs |-> NoLocal ]
    /\ result = [ r \in Runs |-> NoValue ]
    /\ deleted = [ r \in Runs |-> {} ]
    /\ thrown = [ r \in Runs |-> FALSE ]
    /\ soc = NoSummarize
    /\ agent = NoValue /\ embedding = NoValue
    /\ IdleAnalyzer
    /\ IdleContext
    /\ IdleTokenizer

SummarizeFrame ==
    UNCHANGED << pc, local, result, deleted, thrown, agent, embedding,
                 analyzerVars, contextVars, tokenizerVars >>

\* remember(message) resolves: the INSERT adds the memory under a fresh id
\* with the message's timestamp as created_at.
Remember ==
    /\ soc.remembered < MaxRemembers
    /\ \E i \in 1..Len(RememberKinds) :
          dbMemories' = dbMemories \cup
              { MemoryOfKind(MaxInitialMemories + soc.remembered + 1, RememberKinds[i]) }
    /\ soc' = [ soc EXCEPT !.remembered = @ + 1 ]
    /\ UNCHANGED dbSummaries
    /\ SummarizeFrame

\* WHERE agent_id = $1 AND conversation_id = $2 AND created_at < $3, with
\* the cutoff seven days before the call.
OldMemoriesOf(conversation) ==
    { m \in dbMemories :
        m.conversation = conversation /\ m.timestamp < Now - SummarizeOldDays }

\* summarizeOldConversations(conversation) is called: the SELECT is issued.
SummarizeOldCall ==
    /\ soc.pc = "idle"
    /\ \E c \in Conversations :
          soc' = [ soc EXCEPT !.pc = "fetch", !.conversation = c ]
    /\ UNCHANGED << dbMemories, dbSummaries >>
    /\ SummarizeFrame

\* The SELECT resolves: with no row the call returns; otherwise the rows
\* are summarised and storeSummary is called.
SummarizeOldFetchResolves ==
    /\ soc.pc = "fetch"
    /\ LET rows_ == OrderByCreatedAt(OldMemoriesOf(soc.conversation))
       IN  IF Len(rows_) = 0
           THEN soc' = [ soc EXCEPT !.pc = "done" ]
           ELSE soc' = [ soc EXCEPT
                           !.pc = "store",
                           !.memories = rows_,
                           !.summary = CompressMemories(rows_, soc.conversation,
                                                        << "summarizeOld", 1 >>) ]
    /\ UNCHANGED << dbMemories, dbSummaries >>
    /\ SummarizeFrame

\* storeSummary resolves: the summary row is inserted and the DELETE is
\* issued.
SummarizeOldStoreSummary ==
    /\ soc.pc = "store"
    /\ SummaryRowAccepted(soc.summary)
    /\ dbSummaries' = dbSummaries \cup { soc.summary }
    /\ soc' = [ soc EXCEPT !.pc = "delete" ]
    /\ UNCHANGED dbMemories
    /\ SummarizeFrame

\* DELETE ... WHERE agent_id = $1 AND conversation_id = $2 AND
\* created_at < $3: the rows that match when the DELETE runs.
SummarizeOldDelete(conversation) == OldMemoriesOf(conversation)

\* The DELETE resolves and the call returns.
SummarizeOldDeleteResolves ==
    /\ soc.pc = "delete"
    /\ LET gone == SummarizeOldDelete(soc.conversation)
       IN  /\ dbMemories' = dbMemories \ gone
           /\ soc' = [ soc EXCEPT !.pc = "done",
                                  !.removed = { m.id : m \in gone } ]
    /\ UNCHANGED dbSummaries
    /\ SummarizeFrame

\* The SELECT, storeSummary or the DELETE rejects: the call rejects with
\* MemoryError.
SummarizeOldStepFails ==
    /\ soc.pc \in { "fetch", "store", "delete" }
    /\ soc' = [ soc EXCEPT !.pc = "failed" ]
    /\ UNCHANGED << dbMemories, dbSummaries >>
    /\ SummarizeFrame

\* One compressMemories run, one summarizeOldConversations call and the
\* remember() calls, interleaved.
NextInterleaved ==
    \/ Remember
    \/ SummarizeOldCall
    \/ SummarizeOldFetchResolves
    \/ SummarizeOldStoreSummary
    \/ SummarizeOldDeleteResolves
    \/ SummarizeOldStepFails
    \/ CompressMemoriesCall("run1")
    \/ FetchResolves("run1")
    \/ Summarise("run1")
    \/ StoreSummary("run1")
    \/ DeleteResolves("run1")
    \/ StepFails("run1")

SpecInterleaved == InitInterleaved /\ [][NextInterleaved]_vars

----------------------------------------------------------------------------
(* Properties of the calls under interleaving                              *)

\* C27: every memory summarizeOldConversations removed is listed in
\* originalMemoryIds of the summary the call stored, whatever remember()
\* inserted between its fetch and its delete.
C27_RemovedAreSummarised ==
    \A id \in soc.removed :
        /\ soc.summary \in dbSummaries
        /\ id \in Range(soc.summary.originalMemoryIds)

\* The ids of the memories the analyzer found eligible in the snapshot the
\* run fetched.
EligibleIds(r) ==
    IF local[r].analysis = NoValue THEN {}
    ELSE { local[r].analysis.eligible[i].id :
             i \in 1..Len(local[r].analysis.eligible) }

IdsOf(S) == { m.id : m \in S }

\* C28: a compressMemories run deletes only memories that were eligible in
\* the snapshot it fetched: each step of the run removes from the table
\* only such memories, so a memory remember() inserted after the fetch and
\* a memory the analyzer preserved or left non-eligible are still there
\* when the run completes, unless another call removed them.
C28_DeletesOnlySnapshotEligible ==
    [][ \A r \in Runs :
          /\ pc'[r] # pc[r] => (IdsOf(dbMemories) \ IdsOf(dbMemories')) \subseteq EligibleIds(r)
          /\ deleted'[r] \subseteq EligibleIds(r)' ]_vars

\* C28 witness: a run has completed having deleted memories, and a memory
\* inserted after its fetch, of the conversation, age and importance of one
\* it deleted, is still in the table.
C28_Witness ==
    \E r \in Runs :
        /\ pc[r] = "done"
        /\ deleted[r] # {}
        /\ \E m \in dbMemories : \E i \in 1..Len(local[r].allMemories) :
              LET d == local[r].allMemories[i]
              IN  /\ d.id \in deleted[r]
                  /\ m.id \notin { local[r].allMemories[j].id :
                                     j \in 1..Len(local[r].allMemories) }
                  /\ m.conversation = d.conversation
                  /\ m.timestamp = d.timestamp
                  /\ m.importance = d.importance

====
